---- MODULE Spec2Model ----
(***************************************************************************)
(* Tunely: state-machine model of the downloader core.                     *)
(*   Config.get / set / remove        src/tunely/utils/config.py           *)
(*   Downloader.invoke_url, login     src/tunely/downloader/downloader.py  *)
(*   Track.get_user_saved_tracks,                                          *)
(*   Track.download_track             src/tunely/downloader/track.py       *)
(*   Database (accounts, ledger)      src/tunely/utils/db.py               *)
(* Each subsystem has its own specification over the shared variables:     *)
(*   SpecInvoke, SpecSaved, SpecLibrary, SpecLogin, SpecLyrics,            *)
(*   SpecSongInfo, SpecConvert, SpecTokens, SpecJobs, SpecConfig,          *)
(*   Spec (download_track).                                                *)
(***************************************************************************)
EXTENDS Integers, Sequences, FiniteSets, TLC

VARIABLES
    config,      \* the configparser store: option name -> stored value or NoOption
    ivPc,        \* invoke_url: "idle", "request", "returned", "raised"
    ivUrl,       \* invoke_url: the url argument
    ivTry,       \* invoke_url: the try_count argument of the running activation
    ivHist,      \* invoke_url: shapes of the responses received in this call, in order
    ivSleeps,    \* invoke_url: number of time.sleep(5) calls in this call
    ivTokens,    \* invoke_url: number of auth tokens minted in this call
    ivLogged,    \* invoke_url: number of warnings actually emitted in this call
    ivResult,    \* invoke_url: the returned (response_text, response_json) or NoResult
    ivExc,       \* invoke_url: the exception that left the call, or "none"
    stPc,        \* get_user_saved_tracks: "idle", "loop", "returned", "raised"
    stOffset,    \* get_user_saved_tracks: the local offset
    stSongs,     \* get_user_saved_tracks: the local list songs
    stPages,     \* get_user_saved_tracks: the pages fetched, [offset, size], in order
    stExc,       \* get_user_saved_tracks: the exception that left the call, or "none"
    accounts,    \* Database: rows of the accounts table, in insertion order
    nextAccountId, \* Database: the next autoincrement id of the accounts table
    session,     \* Downloader.session: NoSession or the session's credential
    credFile,    \* the file credentials.json of the working directory, or NoFile
    lgPc,        \* login: "idle", "stored", "oauth", "returned", "raised"
    lgUser,      \* login: the user_name argument ("" stands for None)
    lgN,         \* login: login_retry_attempts as read at line 73
    lgOutcomes,  \* login: outcomes of the interactive attempts of this call, in order
    lgStored,    \* login: stored-credential attempts of this call, [id, ok], in order
    lgSleeps,    \* login: time.sleep(3) calls, one entry (the attempt number) per call
    lgCreated,   \* login: ids of the accounts created by this call, in order
    lgBuilt,     \* login: cls.session was assigned by this call
    lgCalls,     \* number of login calls made so far
    lgExc,       \* login: the exception that left the call, or "none"
    ledger,      \* Database: rows of the downloaded_songs table, in insertion order
    files,       \* paths of the target files that exist on disk
    temps,       \* paths whose .temp sibling exists on disk
    dtPc,        \* download_track: "idle", the stage about to run, "done", "crashed"
    dtReq,       \* download_track: the track_id argument
    dtTrackId,   \* download_track: the local track_id (reassigned at line 255)
    dtMeta,      \* download_track: the tuple returned by get_song_info
    dtStream,    \* download_track: the id the content stream was requested for
    dtB,         \* download_track: the local b of the read loop
    dtWritten,   \* download_track: chunks written to the target file by this call
    dtTrace,     \* download_track: the stages this call has run, in order
    dtFailed,    \* download_track: the exceptions raised in this call, [stage, exc]
    dtSkip,      \* download_track: why the call skipped the track, or "none"
    dtRepeat,    \* the requested id was the argument of an earlier call that succeeded
    dtEscaped,   \* the exception that left download_track, or "none"
    succeeded,   \* requested ids of the calls that ran through to the ledger stage
    ledgerTries, \* canonical ids for which line 306 was executed, in order
    dtCalls,     \* number of download_track calls made so far
    dtRun,       \* download_track: empty reads since the last non-empty read
    dtStart,     \* download_track: ledger, files and temps as the call found them
    dtLyricsResp, \* download_track: what the lyrics endpoint answered, or "none"
    lyPc,        \* get_song_lyrics, LINE_SYNCED branch: "idle", "writing", "returned"
    lyLines,     \* get_song_lyrics: the startTimeMs texts of the lines not yet written
    lyFile,      \* get_song_lyrics: the timestamp prefixes written to the file, in order
    stLibrary,   \* the number of saved tracks the server holds (SpecLibrary)
    lgStart,     \* login: the accounts table as the call found it
    dtLyricsSetting, \* download_track: what Config.get returned at line 274
    dtContent,   \* download_track: what this call wrote to the target file, in order
    rawDone,     \* paths whose read loop ran to its end in some call
    gsPc,        \* get_song_info: "idle", "called", "returned", "raised"
    gsResp,      \* get_song_info: the answer of the tracks endpoint
    gsOut,       \* get_song_info: the image_url returned and the exception raised
    cvPc,        \* convert_raw_to_audio: "idle", "called", "selected", "raised"
    cvIn,        \* convert_raw_to_audio: format and quality settings, premium flag
    cvOut,       \* convert_raw_to_audio: codec, bitrate, exception
    tkPc,        \* per concurrent job: its position in invoke_url / get_auth_header
    jbPc,        \* per concurrent job: its position in download_track
    jbId,        \* per concurrent job: the track_id argument, or "none"
    cfSections,  \* the sections the configparser store has
    cfOther,     \* the options of the section "logging": name -> value or NoOption
    cfLast       \* the last call of Config.set / get / remove: arguments and effect

ivVars == <<ivPc, ivUrl, ivTry, ivHist, ivSleeps, ivTokens, ivLogged, ivResult, ivExc>>
stVars == <<stPc, stOffset, stSongs, stPages, stExc, stLibrary>>
dbVars == <<accounts, nextAccountId>>
lgVars == <<session, credFile, lgPc, lgUser, lgN, lgOutcomes, lgStored, lgSleeps,
            lgCreated, lgBuilt, lgCalls, lgExc, lgStart>>
fsVars == <<ledger, files, temps>>
dtVars == <<dtPc, dtReq, dtTrackId, dtMeta, dtStream, dtB, dtWritten, dtTrace, dtFailed,
            dtSkip, dtRepeat, dtEscaped, succeeded, ledgerTries, dtCalls, dtRun, dtStart,
            dtLyricsResp, dtLyricsSetting, dtContent, rawDone>>
lyVars == <<lyPc, lyLines, lyFile>>
gsVars == <<gsPc, gsResp, gsOut>>
cvVars == <<cvPc, cvIn, cvOut>>
tkVars == <<tkPc, jbPc, jbId>>
cfVars == <<cfSections, cfOther, cfLast>>

vars == <<config, ivVars, stVars, dbVars, lgVars, fsVars, dtVars, lyVars, gsVars, cvVars,
          tkVars, cfVars>>

----------------------------------------------------------------------------
(* Python values that the code mixes: configparser hands back str, the     *)
(* defaults of Constants are int.                                          *)

PyInt(n) == [t |-> "int", v |-> n]
PyStr(n) == [t |-> "str", v |-> n]      \* the str whose text is the numeral n
NoOption == [t |-> "none", v |-> 0]

\* bounds of the model
MaxRetry == 4        \* largest retry_attempts a user configures

\* Constants.CONFIG_DOWNLOADER_RETRY_ATTEMPTS
CONFIG_DOWNLOADER_RETRY_ATTEMPTS == 1

OptionNames == {"retry_attempts", "login_retry_attempts"}

\* Config.set: configparser stores str(value)
ConfigSet(cfg, key, n) == [cfg EXCEPT ![key] = PyStr(n)]

\* Config.remove, line 211: remove_option
ConfigRemoveClearsSection(cfg, key) == [k \in DOMAIN cfg |-> NoOption]
ConfigRemove(cfg, key) == [cfg EXCEPT ![key] = NoOption]

\* Config.get: the stored str when the option exists, else the default as given
ConfigGet(cfg, key, default) ==
    IF cfg[key] # NoOption THEN cfg[key] ELSE default

\* Python's  value - 1 : defined on int, TypeError on str
PySubOneRaises(x) == x.t # "int"
PySubOne(x) == x.v - 1

----------------------------------------------------------------------------
(* Downloader.invoke_url                                                   *)

Urls == {"tracks", "lyrics", "following"}

\* What one HTTP request can bring back.
\*   good       a non-empty JSON object without an error key
\*   error      {"error": {"status": .., "message": ..}}
\*   errorflat  {"error": "<text>"}            (error key, not an object)
\*   empty      {}                             (falsy payload)
\*   notjson    a body that is not JSON        (response.json() raises)
\*   connerr    requests.get raises ConnectionError
Shapes == {"good", "error", "errorflat", "empty", "notjson", "connerr"}

NoResult == [text |-> 0, shape |-> "none", seq |-> 0]

\* response.json() with the JSONDecodeError handler: the synthetic payload has
\* seq 0 (it belongs to no response), any parsed payload carries the number of
\* the request that returned it.
ParsedJson(shape, n) ==
    IF shape = "notjson" THEN [shape |-> "error", seq |-> 0]
                         ELSE [shape |-> shape, seq |-> n]

\* line 214:  not response_json or 'error' in response_json
IsErrorPayload(p) == p.shape \in {"empty", "error", "errorflat"}

\* the f-string  response_json['error']['status'] / ['message']  of both warnings
LogRaises(p) ==
    CASE p.shape = "empty"     -> "KeyError"
      [] p.shape = "errorflat" -> "TypeError"
      [] OTHER                 -> "none"

IvIdle ==
    /\ ivPc = "idle" /\ ivUrl = "none" /\ ivTry = 0 /\ ivHist = <<>>
    /\ ivSleeps = 0 /\ ivTokens = 0 /\ ivLogged = 0
    /\ ivResult = NoResult /\ ivExc = "none"

\* a caller invokes invoke_url(url) with the default try_count = 0
IvCall(url) ==
    /\ ivPc \in {"idle", "returned", "raised"}
    /\ ivPc' = "request" /\ ivUrl' = url /\ ivTry' = 0 /\ ivHist' = <<>>
    /\ ivSleeps' = 0 /\ ivTokens' = 0 /\ ivLogged' = 0
    /\ ivResult' = NoResult /\ ivExc' = "none"
    /\ UNCHANGED <<config, stVars, dbVars, lgVars, fsVars, dtVars, lyVars,
                   gsVars, cvVars, tkVars, cfVars>>

IvRaise(exc) ==
    /\ ivPc' = "raised" /\ ivExc' = exc
    /\ UNCHANGED <<ivTry, ivSleeps, ivLogged, ivResult>>

IvReturn(n, p, logged) ==
    /\ ivPc' = "returned" /\ ivResult' = [text |-> n, shape |-> p.shape, seq |-> p.seq]
    /\ ivLogged' = ivLogged + logged
    /\ UNCHANGED <<ivTry, ivSleeps, ivExc>>

\* the retry bound read at line 215
RetryAttempts(cfg) ==
    ConfigGet(cfg, "retry_attempts", PyInt(CONFIG_DOWNLOADER_RETRY_ATTEMPTS))

\* one activation of invoke_url: header, request, parse, then retry / log / return
IvRequest(shape) ==
    /\ ivPc = "request"
    /\ ivTokens' = ivTokens + 1
    /\ ivHist' = Append(ivHist, shape)
    /\ UNCHANGED <<config, ivUrl, stVars, dbVars, lgVars, fsVars, dtVars, lyVars,
                   gsVars, cvVars, tkVars, cfVars>>
    /\ LET n == Len(ivHist) + 1
           p == ParsedJson(shape, n)
           r == RetryAttempts(config)
       IN IF shape = "connerr" THEN IvRaise("ConnectionError")
          ELSE IF ~IsErrorPayload(p) THEN IvReturn(n, p, 0)
          ELSE IF PySubOneRaises(r) THEN IvRaise("TypeError")
          ELSE IF ivTry < PySubOne(r)
               THEN IF LogRaises(p) # "none" THEN IvRaise(LogRaises(p))
                    ELSE /\ ivPc' = "request" /\ ivTry' = ivTry + 1
                         /\ ivSleeps' = ivSleeps + 1 /\ ivLogged' = ivLogged + 1
                         /\ UNCHANGED <<ivResult, ivExc>>
          ELSE IF LogRaises(p) # "none" THEN IvRaise(LogRaises(p))
          ELSE IvReturn(n, p, 1)

\* Config.set("downloader", "retry_attempts", n) between calls; the record of
\* the previous call is dropped, so a finished call always shows the setting
\* it ran under
IvConfigure(n) ==
    /\ ivPc \in {"idle", "returned", "raised"}
    /\ config' = ConfigSet(config, "retry_attempts", n)
    /\ cfSections' = cfSections \cup {"downloader"}
    /\ ivPc' = "idle" /\ ivUrl' = "none" /\ ivTry' = 0 /\ ivHist' = <<>>
    /\ ivSleeps' = 0 /\ ivTokens' = 0 /\ ivLogged' = 0
    /\ ivResult' = NoResult /\ ivExc' = "none"
    /\ UNCHANGED <<stVars, dbVars, lgVars, fsVars, dtVars, lyVars,
                   gsVars, cvVars, tkVars, cfOther, cfLast>>

----------------------------------------------------------------------------
(* Track.get_user_saved_tracks                                             *)

\* limit = 50 (track.py line 39)
SavedTracksLimit == 50

MaxPages == 4        \* requests the saved-tracks endpoint answers in one call

\* sizes of the items array a page can carry: empty, short, full, over-full
PageSizes == {0, 1, SavedTracksLimit - 1, SavedTracksLimit, SavedTracksLimit + 1}

\* a response without a usable items array:
\*   error    an error payload (no items key): resp["items"] raises KeyError
\*   notjson  .json() raises JSONDecodeError
\*   connerr  requests.get raises ConnectionError
PageFailures == {"error", "notjson", "connerr"}

\* the exception the loop body raises on such a response
PageFailureSwallowsError(f) ==
    CASE f = "error"   -> "none"
      [] f = "notjson" -> "JSONDecodeError"
      [] OTHER         -> "ConnectionError"
PageFailureExc(f) ==
    CASE f = "error"   -> "KeyError"
      [] f = "notjson" -> "JSONDecodeError"
      [] OTHER         -> "ConnectionError"

\* the items array of the k-th page: item i of page k is <<k, i>>
PageItems(k, size) == [i \in 1..size |-> <<k, i>>]

\* line 49:  len(resp["items"]) < limit
ShortPageLe(size) == size <= SavedTracksLimit
ShortPage(size) == size < SavedTracksLimit

\* line 45:  offset += limit
NextOffsetSkipsOne(offset, limit) == offset + limit + 1
NextOffset(offset, limit) == offset + limit

StIdle ==
    /\ stPc = "idle" /\ stOffset = 0 /\ stSongs = <<>> /\ stPages = <<>> /\ stExc = "none"

\* outside SpecLibrary the server is not tied to a library: stLibrary stays 0
StNoLibrary == stLibrary = 0

\* lines 37-39: songs = [], offset = 0
StCall ==
    /\ stPc \in {"idle", "returned", "raised"}
    /\ stPc' = "loop" /\ stOffset' = 0 /\ stSongs' = <<>> /\ stPages' = <<>>
    /\ stExc' = "none"
    /\ UNCHANGED <<config, ivVars, stLibrary, dbVars, lgVars, fsVars, dtVars, lyVars,
                   gsVars, cvVars, tkVars, cfVars>>

\* one loop iteration that receives a page with an items array of `size` items
StFetchPage(size) ==
    /\ stPc = "loop" /\ Len(stPages) < MaxPages
    /\ stPages' = Append(stPages, [offset |-> stOffset, size |-> size])
    /\ stOffset' = NextOffset(stOffset, SavedTracksLimit)
    /\ stSongs' = stSongs \o PageItems(Len(stPages) + 1, size)
    /\ stPc' = IF ShortPage(size) THEN "returned" ELSE "loop"
    /\ UNCHANGED <<config, ivVars, stExc, stLibrary, dbVars, lgVars, fsVars, dtVars, lyVars,
                   gsVars, cvVars, tkVars, cfVars>>

\* one loop iteration whose request fails or whose payload has no items; the
\* page is recorded with size -1.  Without an exception the iteration would
\* go on as for an empty items array and end the loop at line 50.
StFetchFails(f) ==
    /\ stPc = "loop" /\ Len(stPages) < MaxPages
    /\ stPages' = Append(stPages, [offset |-> stOffset, size |-> -1])
    /\ stPc' = IF PageFailureExc(f) = "none" THEN "returned" ELSE "raised"
    /\ stExc' = PageFailureExc(f)
    /\ stOffset' = IF f = "error" THEN NextOffset(stOffset, SavedTracksLimit) ELSE stOffset
    /\ UNCHANGED <<config, ivVars, stSongs, stLibrary, dbVars, lgVars, fsVars, dtVars, lyVars,
                   gsVars, cvVars, tkVars, cfVars>>

\* A server that consistently serves a library of n items, numbered 1..n in
\* server order: the items array it returns for (limit, offset)
MaxLibrary == 151    \* largest library a server holds

ServerPage(n, limit, offset) ==
    LET rest == IF n > offset THEN n - offset ELSE 0
        size == IF rest < limit THEN rest ELSE limit
    IN [i \in 1..size |-> offset + i]

\* one loop iteration (lines 42-50) against that server
StFetchLibraryPage ==
    /\ stPc = "loop" /\ Len(stPages) < MaxPages
    /\ LET items == ServerPage(stLibrary, SavedTracksLimit, stOffset)
       IN /\ stPages' = Append(stPages, [offset |-> stOffset, size |-> Len(items)])
          /\ stOffset' = NextOffset(stOffset, SavedTracksLimit)
          /\ stSongs' = stSongs \o items
          /\ stPc' = IF ShortPage(Len(items)) THEN "returned" ELSE "loop"
    /\ UNCHANGED <<config, ivVars, stExc, stLibrary, dbVars, lgVars, fsVars, dtVars, lyVars,
                   gsVars, cvVars, tkVars, cfVars>>

----------------------------------------------------------------------------
(* Database: the accounts table                                            *)

\* Database.create_account: a new row with the next autoincrement id
CreateAccount(rows, id, user, cred) ==
    Append(rows, [id |-> id, user_name |-> user, credentials |-> cred])

\* Database.get_account_by_user_name: .filter(user_name == ..).first();
\* 0 stands for None, otherwise the position of the first matching row
AccountByUserName(rows, user) ==
    IF \E i \in 1..Len(rows) : rows[i].user_name = user
    THEN CHOOSE i \in 1..Len(rows) :
            /\ rows[i].user_name = user
            /\ \A j \in 1..(i - 1) : rows[j].user_name # user
    ELSE 0

\* Database.delete_account: the row of that account object is removed
DeleteAccountKeeps(rows, id) == rows
DeleteAccount(rows, id) ==
    SelectSeq(rows, LAMBDA r : r.id # id)

DbInit == accounts = <<>> /\ nextAccountId = 1

----------------------------------------------------------------------------
(* Downloader.login                                                        *)

\* Constants.CONFIG_DOWNLOADER_LOGIN_RETRY_ATTEMPTS
CONFIG_DOWNLOADER_LOGIN_RETRY_ATTEMPTS == 3

MaxLoginRetry == 2   \* largest login_retry_attempts a user configures
MaxLogins == 3       \* login calls in one run

Users == {"u1", "u2"}
NoUser == ""
Creds == {"c1", "c2"}          \* provider-issued secrets

NoSession == [user |-> NoUser, cred |-> "none"]
NoFile == [user |-> NoUser, cred |-> "none"]

\* what Session.Builder()....create() can do in an interactive attempt:
\*   ok       returns a session
\*   mercury  raises MercuryClient.MercuryException
\*   connerr  raises ConnectionError
\*   other    raises any other exception
Outcomes == {"ok", "mercury", "connerr", "other"}

\* line 73: int(Config.get(...)): int() of the stored str or of the int default
LoginRetryAttempts(cfg) ==
    ConfigGet(cfg, "login_retry_attempts", PyInt(CONFIG_DOWNLOADER_LOGIN_RETRY_ATTEMPTS)).v

LgIdle ==
    /\ session = NoSession /\ credFile = NoFile
    /\ lgPc = "idle" /\ lgUser = NoUser /\ lgN = 0 /\ lgOutcomes = <<>>
    /\ lgStored = <<>> /\ lgSleeps = <<>> /\ lgCreated = <<>> /\ lgBuilt = FALSE
    /\ lgCalls = 0 /\ lgExc = "none" /\ lgStart = <<>>

\* control reaches line 73 and the for loop: with range(0) the loop body never
\* runs and the else clause raises at once
LgEnterLoop ==
    /\ lgN' = LoginRetryAttempts(config)
    /\ IF LoginRetryAttempts(config) <= 0
       THEN lgPc' = "raised" /\ lgExc' = "ConnectionError"
       ELSE lgPc' = "oauth" /\ lgExc' = "none"

\* login(user_name): lines 44-47 and 69-71
LgCall(user) ==
    /\ lgPc \in {"idle", "returned", "raised"} /\ lgCalls < MaxLogins
    /\ lgCalls' = lgCalls + 1
    /\ lgUser' = user /\ lgOutcomes' = <<>> /\ lgStored' = <<>> /\ lgSleeps' = <<>>
    /\ lgCreated' = <<>> /\ lgBuilt' = FALSE /\ lgStart' = accounts
    /\ IF user # NoUser /\ AccountByUserName(accounts, user) # 0
       THEN lgPc' = "stored" /\ lgExc' = "none" /\ lgN' = 0
       ELSE LgEnterLoop
    /\ UNCHANGED <<config, ivVars, stVars, dbVars, session, credFile, fsVars, dtVars, lyVars,
                   gsVars, cvVars, tkVars, cfVars>>

\* line 60: the stored path returns as soon as create() has returned a session
StoredSuccessFallsThrough == FALSE
StoredSuccessReturns == TRUE

\* lines 48-67: the stored-credential attempt.  The collaborator may leave its
\* credentials.json behind (wrote); the code does not look at it here.
LgStoredAttempt(ok, wrote, cred) ==
    /\ lgPc = "stored"
    /\ LET i == AccountByUserName(accounts, lgUser)
           acc == accounts[i]
       IN /\ lgStored' = Append(lgStored, [id |-> acc.id, ok |-> ok])
          /\ credFile' = IF wrote THEN [user |-> acc.user_name, cred |-> cred] ELSE credFile
          /\ IF ok
             THEN /\ session' = [user |-> acc.user_name, cred |-> acc.credentials]
                  /\ lgBuilt' = TRUE
                  /\ IF StoredSuccessReturns
                     THEN lgPc' = "returned" /\ lgExc' = "none" /\ lgN' = lgN
                     ELSE LgEnterLoop
                  /\ UNCHANGED accounts
             ELSE /\ accounts' = DeleteAccount(accounts, acc.id)
                  /\ LgEnterLoop
                  /\ UNCHANGED <<session, lgBuilt>>
    /\ UNCHANGED <<config, ivVars, stVars, nextAccountId, lgUser, lgOutcomes, lgSleeps,
                   lgCreated, lgCalls, lgStart, fsVars, dtVars, lyVars,
                   gsVars, cvVars, tkVars, cfVars>>

\* lines 95 and 105/111: the finally block leaves the loop exactly when
\* credentials.json exists
FinallyNeverBreaks(file) == FALSE
FinallyBreaks(file) == file # NoFile

\* lines 87-90: only the ConnectionError handler sleeps
HandlerSleeps(outcome) == outcome = "connerr"

\* lines 76-115: one iteration of the for loop.  create() ends with `outcome`;
\* `wrote` says whether the collaborator left credentials.json for (user, cred)
\* behind, which it always does when it returns a session.
LgAttempt(outcome, wrote, user, cred) ==
    /\ lgPc = "oauth" /\ Len(lgOutcomes) < lgN
    /\ outcome = "ok" => wrote
    /\ LET k == Len(lgOutcomes) + 1
           file == IF wrote THEN [user |-> user, cred |-> cred] ELSE credFile
           slept == IF HandlerSleeps(outcome) THEN Append(lgSleeps, k) ELSE lgSleeps
       IN /\ lgOutcomes' = Append(lgOutcomes, outcome)
          /\ IF outcome = "ok"
             THEN session' = [user |-> user, cred |-> cred] /\ lgBuilt' = TRUE
             ELSE UNCHANGED <<session, lgBuilt>>
          /\ IF FinallyBreaks(file)
             THEN /\ accounts' = CreateAccount(accounts, nextAccountId, file.user, file.cred)
                  /\ nextAccountId' = nextAccountId + 1
                  /\ lgCreated' = Append(lgCreated, nextAccountId)
                  /\ credFile' = NoFile
                  /\ lgSleeps' = slept
                  /\ lgPc' = "returned" /\ lgExc' = "none"
             ELSE /\ credFile' = file
                  /\ lgSleeps' = Append(slept, k)
                  /\ IF k >= lgN
                     THEN lgPc' = "raised" /\ lgExc' = "ConnectionError"
                     ELSE lgPc' = "oauth" /\ lgExc' = "none"
                  /\ UNCHANGED <<accounts, nextAccountId, lgCreated>>
    /\ UNCHANGED <<config, ivVars, stVars, lgUser, lgN, lgStored, lgCalls, lgStart, fsVars, dtVars, lyVars,
                   gsVars, cvVars, tkVars, cfVars>>

\* Config.set("downloader", "login_retry_attempts", n) between calls
LgConfigure(n) ==
    /\ lgPc \in {"idle", "returned", "raised"}
    /\ config' = ConfigSet(config, "login_retry_attempts", n)
    /\ cfSections' = cfSections \cup {"downloader"}
    /\ UNCHANGED <<ivVars, stVars, dbVars, session, credFile, fsVars, dtVars, lyVars,
                   gsVars, cvVars, tkVars, cfOther, cfLast>>
    /\ lgPc' = "idle" /\ lgUser' = NoUser /\ lgN' = 0 /\ lgOutcomes' = <<>>
    /\ lgStored' = <<>> /\ lgSleeps' = <<>> /\ lgCreated' = <<>> /\ lgBuilt' = FALSE
    /\ lgExc' = "none" /\ lgStart' = <<>> /\ UNCHANGED lgCalls

----------------------------------------------------------------------------
(* Database: the downloaded_songs table (the ledger)                       *)

\* Database.get_downloaded_songs_by_id: .filter(song_id == ..).first() is not None
LedgerHas(rows, song_id) == \E i \in 1..Len(rows) : rows[i].song_id = song_id

\* Database.create_downloaded_song: a new row, no uniqueness check
CreateDownloadedSong(rows, song_id, account_id, path) ==
    Append(rows, [song_id |-> song_id, account_id |-> account_id, path |-> path])

FsInit == ledger = <<>> /\ files = {} /\ temps = {}

----------------------------------------------------------------------------
(* Track.download_track                                                    *)

MaxCalls == 2        \* download_track calls in one run
MaxChunks == 2       \* non-empty chunks a content stream delivers

\* line 266:  while b < 5
EmptyReadsToStop == 5

\* requested ids; "A" is a stale id that the tracks endpoint relinks to "B"
TrackIds == {"A", "B", "C"}
RelinkedTo(id) == IF id = "A" THEN "B" ELSE id

\* the file path built at lines 234-237 from the metadata of the track
TrackPath(canonical) == <<"output_dir", canonical>>

NoMeta == [id |-> "none", playable |-> FALSE, path |-> <<>>]

\* class Downloader declares session only: reading Downloader.account at line
\* 306 raises AttributeError
DownloaderDeclaresAccount == TRUE
DownloaderHasAccount == FALSE

\* the id of the account row the ledger row would point to
CurrentAccountId == 1

\* the except clauses of download_track and of the stages it calls
FirstHandlerOnlyValueError(exc) == exc = "ValueError"
FirstHandlerCatches(exc) == TRUE                       \* line 239: except Exception
OuterHandlerOnlyValueError(exc) == exc = "ValueError"
OuterHandlerCatches(exc) == TRUE                       \* line 308: except Exception
LyricsHandlerCatches(exc) == exc = "ValueError"        \* line 290: except ValueError
ConvertHandlerCatches(exc) == exc = "ffmpeg.Error"     \* line 221: except ffmpeg.Error
TagHandlerCatches(exc) == TRUE                         \* line 303: except Exception

\* exceptions a stage can end with ("none": the stage returned)
ResolveOutcomes == {"none", "ValueError", "TypeError", "ConnectionError"}
LookupOutcomes == {"none", "SQLAlchemyError"}
ConvertOutcomes == {"none", "ffmpeg.Error", "ValueError"}
TagOutcomes == {"none", "OSError"}
LedgerOutcomes == {"none", "SQLAlchemyError"}
\* line 257-263: from_base62, get_content_stream, mkdir/open
OpenOutcomes == {"none", "from_base62", "stream", "file"}
ReadKinds == {"data", "empty", "fail"}

\* lines 254-257: the id handed to TrackId.from_base62 / get_content_stream
StreamIdKeepsRequested(track_id, scraped_song_id) == track_id
StreamId(track_id, scraped_song_id) ==
    IF track_id # scraped_song_id THEN scraped_song_id ELSE track_id

\* str.lower() on a str given as a sequence of one-character strings
PyLower(text) ==
    LET upper == <<"A", "B", "C", "D", "E", "F", "G", "H", "I", "J", "K", "L", "M", "N",
                   "O", "P", "Q", "R", "S", "T", "U", "V", "W", "X", "Y", "Z">>
        lower == <<"a", "b", "c", "d", "e", "f", "g", "h", "i", "j", "k", "l", "m", "n",
                   "o", "p", "q", "r", "s", "t", "u", "v", "w", "x", "y", "z">>
        LowerChar(c) ==
            IF \E i \in DOMAIN upper : upper[i] = c
            THEN lower[CHOOSE i \in DOMAIN upper : upper[i] = c]
            ELSE c
    IN [i \in DOMAIN text |-> LowerChar(text[i])]

\* a bool (shown by its repr) and a str, as Config.get hands them back
PyBool(b) == [t |-> "bool", v |-> IF b THEN <<"T", "r", "u", "e">>
                                        ELSE <<"F", "a", "l", "s", "e">>]
PyText(text) == [t |-> "str", v |-> text]

\* Constants.CONFIG_DOWNLOADER_DOWNLOAD_LYRICS
CONFIG_DOWNLOADER_DOWNLOAD_LYRICS == PyBool(TRUE)

\* what Config.get("downloader", "download_lyrics", default) returns at line
\* 274: the default, or the str that Config.set stored (str(True), str(False),
\* or a text the user wrote)
LyricsSettings ==
    {CONFIG_DOWNLOADER_DOWNLOAD_LYRICS,
     PyText(<<"T", "r", "u", "e">>), PyText(<<"F", "a", "l", "s", "e">>),
     PyText(<<"f", "a", "l", "s", "e">>), PyText(<<"y", "e", "s">>)}

\* lines 275-283: download_lyrics_flag
DownloadLyricsFlagNoLower(download_lyrics) ==
    IF download_lyrics.t = "bool" /\ download_lyrics = PyBool(TRUE) THEN TRUE
    ELSE IF download_lyrics.t = "str" /\ download_lyrics.v = <<"t", "r", "u", "e">> THEN TRUE
    ELSE IF download_lyrics.t = "str" /\ download_lyrics.v = <<"f", "a", "l", "s", "e">>
    THEN FALSE
    ELSE TRUE
DownloadLyricsFlag(download_lyrics) ==
    IF download_lyrics.t = "bool" /\ download_lyrics = PyBool(TRUE) THEN TRUE
    ELSE IF download_lyrics.t = "str" /\ PyLower(download_lyrics.v) = <<"t", "r", "u", "e">>
    THEN TRUE
    ELSE IF download_lyrics.t = "str" /\ PyLower(download_lyrics.v) = <<"f", "a", "l", "s", "e">>
    THEN FALSE
    ELSE TRUE

\* line 250: get_downloaded_songs_by_id(track_id) is not None or file_path.exists()
AlreadyDownloadedLedgerOnly(rows, fs, track_id, file_path) == LedgerHas(rows, track_id)
AlreadyDownloaded(rows, fs, track_id, file_path) ==
    LedgerHas(rows, track_id) \/ file_path \in fs

\* line 269:  f.write(data); data is the list of the chunks read (one or none)
FileAfterWriteOverwrites(content, data) == data
FileAfterWrite(content, data) == content \o data

\* line 270:  b += 1 if data == b'' else 0
BAfterRead(b, empty) == b + (IF empty THEN 1 ELSE 0)

\* the statement that follows each stage in the body of download_track:
\* read loop (266-270), lyrics (285-291), convert (293), tagging (298-304),
\* ledger record (306)
StageAfterTranscodeFirst(stage) ==
    CASE stage = "read"    -> "convert"
      [] stage = "convert" -> "lyrics"
      [] stage = "lyrics"  -> "tag"
      [] stage = "tag"     -> "ledger"
StageAfter(stage) ==
    CASE stage = "read"    -> "lyrics"
      [] stage = "lyrics"  -> "convert"
      [] stage = "convert" -> "tag"
      [] stage = "tag"     -> "ledger"

\* What the lyrics endpoint can answer.
\*   unsynced, line_synced   lyrics with lines and that syncType
\*   other_sync              lyrics with lines and another syncType
\*   no_lyrics               a JSON object without the key lyrics
\*   no_lines                lyrics without the key lines
\*   no_syncType             lyrics with lines, without the key syncType
\*   the rest                as in Shapes
LyricsResponses ==
    {"unsynced", "line_synced", "other_sync", "no_lyrics", "no_lines", "no_syncType",
     "error", "errorflat", "empty", "notjson", "connerr"}

\* the shape invoke_url sees in a lyrics response
LyricsShape(resp) == IF resp \in Shapes THEN resp ELSE "good"

\* the exception a single-request invoke_url call ends with ("none": it returns)
InvokeUrlRaises(shape, cfg) ==
    LET p == ParsedJson(shape, 1)
    IN IF shape = "connerr" THEN "ConnectionError"
       ELSE IF ~IsErrorPayload(p) THEN "none"
       ELSE IF PySubOneRaises(RetryAttempts(cfg)) THEN "TypeError"
       ELSE LogRaises(p)

\* get_song_lyrics, lines 154-184: the exception the call ends with
GetSongLyricsRaises(resp, cfg) ==
    LET e == InvokeUrlRaises(LyricsShape(resp), cfg)
    IN IF e # "none" THEN e                                     \* line 154
       ELSE IF resp \in {"error", "notjson"} THEN "ValueError"   \* lines 157-161
       ELSE IF resp \in {"no_lyrics", "no_lines"} THEN "ValueError"
       ELSE IF resp = "no_syncType" THEN "KeyError"             \* line 163
       ELSE IF resp \in {"unsynced", "line_synced"} THEN "none"
       ELSE "ValueError"                                        \* lines 183-184

DtIdle ==
    /\ dtPc = "idle" /\ dtReq = "none" /\ dtTrackId = "none" /\ dtMeta = NoMeta
    /\ dtStream = "none" /\ dtB = 0 /\ dtWritten = 0 /\ dtTrace = <<>>
    /\ dtFailed = <<>> /\ dtSkip = "none" /\ dtRepeat = FALSE /\ dtEscaped = "none"
    /\ succeeded = {} /\ ledgerTries = <<>> /\ dtCalls = 0
    /\ dtRun = 0 /\ dtLyricsResp = "none"
    /\ dtLyricsSetting = CONFIG_DOWNLOADER_DOWNLOAD_LYRICS
    /\ dtStart = [ledger |-> <<>>, files |-> {}, temps |-> {}]
    /\ dtContent = <<>> /\ rawDone = {}

\* the variables no step of download_track touches
DtFrame ==
    UNCHANGED <<config, ivVars, stVars, dbVars, lgVars, lyVars, gsVars, cvVars, tkVars, cfVars, dtReq,
                dtRepeat, dtCalls,
                dtStart>>

\* a stage ran and recorded its exception, if any
DtRan(stage, exc) ==
    /\ dtTrace' = Append(dtTrace, stage)
    /\ dtFailed' = IF exc = "none" THEN dtFailed
                   ELSE Append(dtFailed, [stage |-> stage, exc |-> exc])

\* an exception reaches the except clause at line 308 (or leaves the call)
DtOuterExcept(exc) ==
    IF OuterHandlerCatches(exc)
    THEN dtPc' = "done" /\ dtEscaped' = "none"
    ELSE dtPc' = "crashed" /\ dtEscaped' = exc

\* a batch caller invokes download_track(track_id)
DtCall(id) ==
    /\ dtPc \in {"idle", "done"} /\ dtCalls < MaxCalls
    /\ dtCalls' = dtCalls + 1
    /\ dtPc' = "resolve" /\ dtReq' = id /\ dtTrackId' = id /\ dtMeta' = NoMeta
    /\ dtStream' = "none" /\ dtB' = 0 /\ dtWritten' = 0 /\ dtTrace' = <<>>
    /\ dtFailed' = <<>> /\ dtSkip' = "none" /\ dtEscaped' = "none"
    /\ dtRepeat' = (id \in succeeded)
    /\ dtRun' = 0 /\ dtLyricsResp' = "none"
    /\ dtLyricsSetting' = CONFIG_DOWNLOADER_DOWNLOAD_LYRICS
    /\ dtStart' = [ledger |-> ledger, files |-> files, temps |-> temps]
    /\ dtContent' = <<>>
    /\ UNCHANGED <<rawDone, config, ivVars, stVars, dbVars, lgVars, lyVars, gsVars, cvVars, tkVars, cfVars,
                   fsVars, succeeded,
                   ledgerTries>>

\* lines 226-241: get_song_info and the file path
DtResolve(exc, playable) ==
    /\ dtPc = "resolve"
    /\ DtRan("resolve", exc)
    /\ IF exc = "none"
       THEN /\ dtMeta' = [id |-> RelinkedTo(dtReq), playable |-> playable,
                          path |-> TrackPath(RelinkedTo(dtReq))]
            /\ dtPc' = "check" /\ dtEscaped' = "none"
       ELSE /\ dtMeta' = NoMeta
            /\ IF FirstHandlerCatches(exc)
               THEN dtPc' = "done" /\ dtEscaped' = "none"
               ELSE dtPc' = "crashed" /\ dtEscaped' = exc
    /\ DtFrame
    /\ UNCHANGED <<dtContent, rawDone, fsVars, dtTrackId, dtStream, dtB, dtWritten, dtSkip, succeeded, ledgerTries,
                   dtRun, dtLyricsResp,
                   dtLyricsSetting>>

\* lines 246-252: the playable check and the dedup check (on the requested id)
DtCheck(exc) ==
    /\ dtPc = "check"
    /\ IF ~dtMeta.playable
       THEN /\ DtRan("check", "none")
            /\ dtSkip' = "unplayable" /\ dtPc' = "done" /\ dtEscaped' = "none"
       ELSE IF exc # "none"
       THEN /\ DtRan("check", exc)
            /\ dtSkip' = "none" /\ DtOuterExcept(exc)
       ELSE IF AlreadyDownloaded(ledger, files, dtTrackId, dtMeta.path)
       THEN /\ DtRan("check", "none")
            /\ dtSkip' = "dedup" /\ dtPc' = "done" /\ dtEscaped' = "none"
       ELSE /\ DtRan("check", "none")
            /\ dtSkip' = "none" /\ dtPc' = "open" /\ dtEscaped' = "none"
    /\ DtFrame
    /\ UNCHANGED <<dtContent, rawDone, fsVars, dtTrackId, dtMeta, dtStream, dtB, dtWritten, succeeded, ledgerTries,
                   dtRun, dtLyricsResp,
                   dtLyricsSetting>>

\* lines 254-263: id substitution, content stream, mkdir and open(file_path, 'wb')
DtOpen(outcome) ==
    /\ dtPc = "open"
    /\ dtTrackId' = StreamId(dtTrackId, dtMeta.id)
    /\ dtStream' = IF outcome = "from_base62" THEN "none"
                   ELSE StreamId(dtTrackId, dtMeta.id)
    /\ CASE outcome = "none" ->
              /\ DtRan("open", "none")
              /\ files' = files \cup {dtMeta.path}
              /\ dtPc' = "read" /\ dtEscaped' = "none"
         [] outcome = "from_base62" ->
              /\ DtRan("open", "ValueError") /\ DtOuterExcept("ValueError")
              /\ UNCHANGED files
         [] outcome = "stream" ->
              /\ DtRan("open", "RuntimeError") /\ DtOuterExcept("RuntimeError")
              /\ UNCHANGED files
         [] outcome = "file" ->
              /\ DtRan("open", "OSError") /\ DtOuterExcept("OSError")
              /\ UNCHANGED files
    /\ DtFrame
    /\ UNCHANGED <<dtContent, rawDone, ledger, temps, dtMeta, dtB, dtWritten, dtSkip, succeeded, ledgerTries,
                   dtRun, dtLyricsResp,
                   dtLyricsSetting>>

\* lines 266-270: one iteration of the read loop
DtRead(kind) ==
    /\ dtPc = "read"
    /\ kind = "data" => dtWritten < MaxChunks
    /\ CASE kind = "data" ->
              /\ dtWritten' = dtWritten + 1 /\ dtB' = BAfterRead(dtB, FALSE)
              /\ dtContent' = FileAfterWrite(dtContent, <<dtWritten + 1>>)
              /\ dtRun' = 0
              /\ dtPc' = "read" /\ dtEscaped' = "none"
              /\ UNCHANGED <<dtTrace, dtFailed, rawDone>>
         [] kind = "empty" ->
              /\ dtWritten' = dtWritten /\ dtB' = BAfterRead(dtB, TRUE)
              /\ dtContent' = FileAfterWrite(dtContent, <<>>)
              /\ dtRun' = dtRun + 1
              /\ dtEscaped' = "none"
              /\ IF BAfterRead(dtB, TRUE) < EmptyReadsToStop
                 THEN dtPc' = "read" /\ UNCHANGED <<dtTrace, dtFailed, rawDone>>
                 ELSE /\ dtPc' = StageAfter("read") /\ DtRan("read", "none")
                      /\ rawDone' = rawDone \cup {dtMeta.path}
         [] kind = "fail" ->
              /\ UNCHANGED <<dtWritten, dtB, dtRun, dtContent, rawDone>>
              /\ DtRan("read", "OSError") /\ DtOuterExcept("OSError")
    /\ DtFrame
    /\ UNCHANGED <<fsVars, dtTrackId, dtMeta, dtStream, dtSkip, succeeded, ledgerTries,
                   dtLyricsResp, dtLyricsSetting>>

\* lines 274-291: the lyrics stage.  Config.get returns `setting`; when the
\* flag is set, get_song_lyrics is called and the lyrics endpoint answers resp
DtLyrics(resp, setting) ==
    /\ dtPc = "lyrics"
    /\ dtLyricsSetting' = setting
    /\ dtLyricsResp' = IF DownloadLyricsFlag(setting) THEN resp ELSE "none"
    /\ LET exc == IF DownloadLyricsFlag(setting) THEN GetSongLyricsRaises(resp, config)
                  ELSE "none"
       IN /\ DtRan("lyrics", exc)
          /\ IF exc = "none" \/ LyricsHandlerCatches(exc)
             THEN dtPc' = StageAfter("lyrics") /\ dtEscaped' = "none"
             ELSE DtOuterExcept(exc)
    /\ DtFrame
    /\ UNCHANGED <<dtContent, rawDone, fsVars, dtTrackId, dtMeta, dtStream, dtB, dtWritten, dtSkip, succeeded,
                   ledgerTries, dtRun>>

\* line 293, convert_raw_to_audio (lines 186-222): the raw file is moved to
\* its .temp sibling; when the ffmpeg calls return, the .temp file is unlinked;
\* `produced` says whether the transcoder left an output file at the target
DtConvert(exc, produced) ==
    /\ dtPc = "convert"
    /\ exc # "none" => ~produced
    /\ DtRan("convert", exc)
    /\ files' = IF produced THEN files \cup {dtMeta.path} ELSE files \ {dtMeta.path}
    /\ temps' = IF exc = "none" THEN temps \ {dtMeta.path} ELSE temps \cup {dtMeta.path}
    /\ IF exc = "none" \/ ConvertHandlerCatches(exc)
       THEN dtPc' = StageAfter("convert") /\ dtEscaped' = "none"
       ELSE DtOuterExcept(exc)
    /\ DtFrame
    /\ UNCHANGED <<dtContent, rawDone, ledger, dtTrackId, dtMeta, dtStream, dtB, dtWritten, dtSkip, succeeded,
                   ledgerTries, dtRun, dtLyricsResp,
                   dtLyricsSetting>>

\* lines 298-304: tagging; music_tag cannot load a file that does not exist
DtTag(exc) ==
    /\ dtPc = "tag"
    /\ dtMeta.path \notin files => exc # "none"
    /\ DtRan("tag", exc)
    /\ IF exc = "none" \/ TagHandlerCatches(exc)
       THEN dtPc' = StageAfter("tag") /\ dtEscaped' = "none"
       ELSE DtOuterExcept(exc)
    /\ DtFrame
    /\ UNCHANGED <<dtContent, rawDone, fsVars, dtTrackId, dtMeta, dtStream, dtB, dtWritten, dtSkip, succeeded,
                   ledgerTries, dtRun, dtLyricsResp,
                   dtLyricsSetting>>

\* line 306: Database.create_downloaded_song(track_id, Downloader.account, path)
DtLedger(exc) ==
    /\ dtPc = "ledger"
    /\ succeeded' = succeeded \cup {dtReq}
    /\ ledgerTries' = Append(ledgerTries, dtTrackId)
    /\ IF ~DownloaderHasAccount
       THEN /\ DtRan("ledger", "AttributeError") /\ DtOuterExcept("AttributeError")
            /\ UNCHANGED ledger
       ELSE IF exc # "none"
       THEN /\ DtRan("ledger", exc) /\ DtOuterExcept(exc)
            /\ UNCHANGED ledger
       ELSE /\ DtRan("ledger", "none")
            /\ ledger' = CreateDownloadedSong(ledger, dtTrackId, CurrentAccountId, dtMeta.path)
            /\ dtPc' = "done" /\ dtEscaped' = "none"
    /\ DtFrame
    /\ UNCHANGED <<dtContent, rawDone, files, temps, dtTrackId, dtMeta, dtStream, dtB, dtWritten, dtSkip, dtRun,
                   dtLyricsResp, dtLyricsSetting>>

----------------------------------------------------------------------------
(* Track.get_song_lyrics: the LINE_SYNCED branch, lines 171-181 of track.py *)
(* A str is a sequence of one-character strings.                           *)

MaxLines == 2        \* lines of one lyrics response

DigitChars == <<"0", "1", "2", "3", "4", "5", "6", "7", "8", "9">>

RECURSIVE PyStrOf(_)
\* str(n) of an int n >= 0
PyStrOf(n) ==
    IF n < 10 THEN <<DigitChars[n + 1]>>
    ELSE Append(PyStrOf(n \div 10), DigitChars[(n % 10) + 1])

\* the value of one decimal digit character
DigitValue(c) == CHOOSE d \in 0..9 : DigitChars[d + 1] = c

RECURSIVE PyIntOf(_)
\* int(text) of a decimal numeral (line 174)
PyIntOf(text) ==
    IF Len(text) = 0 THEN 0
    ELSE PyIntOf(SubSeq(text, 1, Len(text) - 1)) * 10 + DigitValue(text[Len(text)])

RECURSIVE Zfill(_, _)
\* text.zfill(width)
Zfill(text, width) ==
    IF Len(text) >= width THEN text ELSE Zfill(<<"0">> \o text, width)

\* text[:k]
SliceTo(text, k) == SubSeq(text, 1, IF Len(text) < k THEN Len(text) ELSE k)

\* lines 175-177
TsMinutes(timestamp) == Zfill(PyStrOf(timestamp \div 60000), 2)
TsSeconds(timestamp) == Zfill(PyStrOf((timestamp % 60000) \div 1000), 2)
TsMillis(timestamp) == Zfill(SliceTo(PyStrOf(timestamp % 1000), 2), 2)

\* line 178: the prefix written before the words of the line
TimestampPrefix(start_time_ms) ==
    LET timestamp == PyIntOf(start_time_ms)
    IN <<"[">> \o TsMinutes(timestamp) \o <<":">> \o TsSeconds(timestamp)
              \o <<".">> \o TsMillis(timestamp) \o <<"]">>

\* startTimeMs values a response carries: around every field boundary
StartTimes ==
    {0, 5, 45, 99, 100, 340, 999, 1000, 59999, 60000, 125045, 125340, 5999999, 6000000}

LyIdle == lyPc = "idle" /\ lyLines = <<>> /\ lyFile = <<>>

\* get_song_lyrics receives a LINE_SYNCED response with these lines
LyCall(times) ==
    /\ lyPc \in {"idle", "returned"}
    /\ lyPc' = "writing"
    /\ lyLines' = [i \in 1..Len(times) |-> PyStrOf(times[i])]
    /\ lyFile' = <<>>
    /\ UNCHANGED <<config, ivVars, stVars, dbVars, lgVars, fsVars, dtVars,
                   gsVars, cvVars, tkVars, cfVars>>

\* one iteration of the for loop at line 173
LyWriteLine ==
    /\ lyPc = "writing" /\ lyLines # <<>>
    /\ lyFile' = Append(lyFile, [ms |-> PyIntOf(Head(lyLines)),
                                 prefix |-> TimestampPrefix(Head(lyLines))])
    /\ lyLines' = Tail(lyLines)
    /\ UNCHANGED <<lyPc, config, ivVars, stVars, dbVars, lgVars, fsVars, dtVars,
                   gsVars, cvVars, tkVars, cfVars>>

\* lines 180-181: the file is closed and the call returns
LyReturn ==
    /\ lyPc = "writing" /\ lyLines = <<>>
    /\ lyPc' = "returned"
    /\ UNCHANGED <<lyLines, lyFile, config, ivVars, stVars, dbVars, lgVars, fsVars, dtVars,
                   gsVars, cvVars, tkVars, cfVars>>

----------------------------------------------------------------------------
(* Track.get_song_info, lines 103-136 of track.py                          *)

MaxImages == 3       \* images of one album

\* What the tracks endpoint can answer.
\*   full           {"tracks": [track]} with every field; album.images as given
\*   no_tracks      a JSON object without the key tracks
\*   empty_tracks   {"tracks": []}
\*   null_track     {"tracks": [null]}
\*   missing_field  {"tracks": [track]} with a field of lines 111-122 missing
\*   the rest       as in Shapes
\* the widths of the images of a full answer are drawn from four sizes
TracksResponses ==
    LET kinds == {"no_tracks", "empty_tracks", "null_track", "missing_field",
                  "error", "errorflat", "empty", "notjson", "connerr"}
        widths == {64, 300, 640, 1000}
    IN {[kind |-> k, widths |-> <<>>] : k \in kinds}
          \cup {[kind |-> "full", widths |-> w] :
                   w \in UNION {[1..n -> widths] : n \in 0..MaxImages}}

\* info["tracks"][0]["album"]["images"]: the i-th image has url i
AlbumImages(resp) == [i \in DOMAIN resp.widths |-> [url |-> i, width |-> resp.widths[i]]]

\* the shape invoke_url sees in a tracks response
TracksShape(kind) == IF kind \in Shapes THEN kind ELSE "good"

\* line 105:  not "tracks" in info
LacksTracksKey(kind) == kind \in {"no_tracks", "error", "errorflat", "empty", "notjson"}

\* lines 110-128: the exception the field extraction raises, or "none"
ExtractionRaises(resp) ==
    CASE resp.kind = "empty_tracks"  -> "IndexError"
      [] resp.kind = "null_track"    -> "TypeError"
      [] resp.kind = "missing_field" -> "KeyError"
      [] resp.kind = "full" /\ resp.widths = <<>> -> "IndexError"
      [] OTHER -> "none"

\* lines 135-136: the handler builds its message with e.with_traceback(NameError);
\* with_traceback accepts a traceback or None only and raises TypeError, so the
\* raise ValueError(...) statement never completes
ParseHandlerRaises(caught) == "TypeError"

\* line 126:  i["width"] > image["width"]
WiderOrEqual(i, image) == i.width >= image.width
Wider(i, image) == i.width > image.width

RECURSIVE WidestUpTo(_, _)
\* lines 124-127: the index of `image` after the first n iterations of the loop
WidestUpTo(images, n) ==
    IF n = 0 THEN 1
    ELSE LET image == WidestUpTo(images, n - 1)
         IN IF Wider(images[n], images[image]) THEN n ELSE image

NoSongInfo == [image_url |-> 0, exc |-> "none"]

\* get_song_info: the image_url of the returned tuple, or the exception raised
GetSongInfo(resp, cfg) ==
    LET e == InvokeUrlRaises(TracksShape(resp.kind), cfg)
        images == AlbumImages(resp)
    IN IF e # "none" THEN [image_url |-> 0, exc |-> e]                       \* line 103
       ELSE IF LacksTracksKey(resp.kind) THEN [image_url |-> 0, exc |-> "ValueError"]
       ELSE IF ExtractionRaises(resp) # "none"
       THEN [image_url |-> 0, exc |-> ParseHandlerRaises(ExtractionRaises(resp))]
       ELSE [image_url |-> images[WidestUpTo(images, Len(images))].url, exc |-> "none"]

GsIdle == gsPc = "idle" /\ gsResp = [kind |-> "none", widths |-> <<>>] /\ gsOut = NoSongInfo

\* get_song_info(song_id) is called and the tracks endpoint answers resp
GsCall(resp) ==
    /\ gsPc \in {"idle", "returned", "raised"}
    /\ gsPc' = "called" /\ gsResp' = resp /\ gsOut' = NoSongInfo
    /\ UNCHANGED <<config, ivVars, stVars, dbVars, lgVars, fsVars, dtVars, lyVars, cvVars,
                   tkVars, cfVars>>

\* lines 103-136
GsRun ==
    /\ gsPc = "called"
    /\ gsOut' = GetSongInfo(gsResp, config)
    /\ gsPc' = IF GetSongInfo(gsResp, config).exc = "none" THEN "returned" ELSE "raised"
    /\ UNCHANGED <<gsResp, config, ivVars, stVars, dbVars, lgVars, fsVars, dtVars, lyVars,
                   cvVars, tkVars, cfVars>>

----------------------------------------------------------------------------
(* Track.convert_raw_to_audio, lines 191-216: codec and bitrate            *)

\* values of the format setting (Config.get returns the stored str, or the
\* default "ogg"): every key of the codec table, two spellings with capitals,
\* one format the table does not have
Formats ==
    {<<"a", "a", "c">>, <<"f", "d", "k", "_", "a", "a", "c">>, <<"m", "4", "a">>,
     <<"m", "p", "3">>, <<"o", "g", "g">>, <<"o", "p", "u", "s">>,
     <<"v", "o", "r", "b", "i", "s">>,
     <<"M", "P", "3">>, <<"O", "p", "u", "s">>, <<"f", "l", "a", "c">>}

\* values of the quality setting; "lossless" is not a key of the bitrate table
Qualities == {"auto", "normal", "high", "very_high", "lossless"}

\* Constants.SPOTIFY_CODEC_MAP.get(key, default)
CodecMapGet(key, default) ==
    CASE key = <<"a", "a", "c">>                     -> "aac"
      [] key = <<"f", "d", "k", "_", "a", "a", "c">> -> "libfdk_aac"
      [] key = <<"m", "4", "a">>                     -> "aac"
      [] key = <<"m", "p", "3">>                     -> "libmp3lame"
      [] key = <<"o", "g", "g">>                     -> "copy"
      [] key = <<"o", "p", "u", "s">>                -> "libopus"
      [] key = <<"v", "o", "r", "b", "i", "s">>      -> "copy"
      [] OTHER                                       -> default

\* line 192
CodecForAsWritten(download_format) == CodecMapGet(download_format, "copy")
CodecFor(download_format) == CodecMapGet(PyLower(download_format), "copy")

\* lines 195-200: the dict bitrates
Bitrates(premium) ==
    [q \in {"auto", "normal", "high", "very_high"} |->
        CASE q = "auto"      -> IF premium THEN "320k" ELSE "160k"
          [] q = "normal"    -> "96k"
          [] q = "high"      -> "160k"
          [] q = "very_high" -> "320k"]

NoSelection == [codec |-> "none", bitrate |-> "none", bitrate_passed |-> FALSE, exc |-> "none"]

\* lines 191-216: the codec, the bitrate (None shown as "none"), whether the
\* output call receives b:a, and the exception raised at line 201
SelectCodec(download_format, quality, premium) ==
    LET codec == CodecFor(download_format)
    IN IF codec # "copy"
       THEN IF quality \in DOMAIN Bitrates(premium)
            THEN [codec |-> codec, bitrate |-> Bitrates(premium)[quality],
                  bitrate_passed |-> TRUE, exc |-> "none"]
            ELSE [codec |-> codec, bitrate |-> "none", bitrate_passed |-> FALSE,
                  exc |-> "KeyError"]
       ELSE [codec |-> codec, bitrate |-> "none", bitrate_passed |-> FALSE, exc |-> "none"]

CvIdle ==
    /\ cvPc = "idle" /\ cvOut = NoSelection
    /\ cvIn = [format |-> <<"o", "g", "g">>, quality |-> "auto", premium |-> FALSE]

\* convert_raw_to_audio is called under these settings and this account type
CvCall(download_format, quality, premium) ==
    /\ cvPc \in {"idle", "selected", "raised"}
    /\ cvPc' = "called" /\ cvOut' = NoSelection
    /\ cvIn' = [format |-> download_format, quality |-> quality, premium |-> premium]
    /\ UNCHANGED <<config, ivVars, stVars, dbVars, lgVars, fsVars, dtVars, lyVars, gsVars,
                   tkVars, cfVars>>

\* lines 191-216
CvSelect ==
    /\ cvPc = "called"
    /\ cvOut' = SelectCodec(cvIn.format, cvIn.quality, cvIn.premium)
    /\ cvPc' = IF SelectCodec(cvIn.format, cvIn.quality, cvIn.premium).exc = "none"
               THEN "selected" ELSE "raised"
    /\ UNCHANGED <<cvIn, config, ivVars, stVars, dbVars, lgVars, fsVars, dtVars, lyVars,
                   gsVars, tkVars, cfVars>>

----------------------------------------------------------------------------
(* Concurrent jobs on the one Downloader.session: each job is inside       *)
(* invoke_url (downloader.py 204-224), which builds its header through     *)
(* get_auth_header (157-174) and __get_auth_token (135-155).  The code     *)
(* takes no lock anywhere on this path.                                    *)

MaxJobs == 3         \* jobs running at the same time

TkIdle ==
    /\ tkPc = [j \in 1..MaxJobs |-> "idle"]
    /\ jbPc = [j \in 1..MaxJobs |-> "idle"] /\ jbId = [j \in 1..MaxJobs |-> "none"]

TkFrame ==
    UNCHANGED <<config, ivVars, stVars, dbVars, lgVars, fsVars, dtVars, lyVars, gsVars,
                cvVars, cfVars, jbPc, jbId>>

\* line 205: invoke_url calls get_auth_header
TkInvoke(j) ==
    /\ tkPc[j] = "idle" /\ tkPc' = [tkPc EXCEPT ![j] = "header"] /\ TkFrame

\* lines 170 and 152: session.tokens().get_token(...) is entered
TkMint(j) ==
    /\ tkPc[j] = "header" /\ tkPc' = [tkPc EXCEPT ![j] = "minting"] /\ TkFrame

\* line 155: the token is back; lines 171-173 build the rest of the header
TkMinted(j) ==
    /\ tkPc[j] = "minting" /\ tkPc' = [tkPc EXCEPT ![j] = "built"] /\ TkFrame

\* line 206: requests.get is in flight
TkRequest(j) ==
    /\ tkPc[j] = "built" /\ tkPc' = [tkPc EXCEPT ![j] = "request"] /\ TkFrame

\* lines 207-224: the response is handled and invoke_url returns
TkReturn(j) ==
    /\ tkPc[j] = "request" /\ tkPc' = [tkPc EXCEPT ![j] = "idle"] /\ TkFrame

----------------------------------------------------------------------------
(* Concurrent download_track jobs (track.py 224-309) on the one ledger and *)
(* the one output directory.  Each job runs download_track once; the steps *)
(* of different jobs interleave.  No step takes a lock.                    *)

\* lines 226-244: the job is started for track_id; metadata and path resolved
JbCall(j, id) ==
    /\ jbPc[j] = "idle"
    /\ jbPc' = [jbPc EXCEPT ![j] = "check"] /\ jbId' = [jbId EXCEPT ![j] = id]
    /\ UNCHANGED <<tkPc, config, ivVars, stVars, dbVars, lgVars, fsVars, dtVars, lyVars,
                   gsVars, cvVars, cfVars>>

\* line 250: the dedup check
JbCheck(j) ==
    /\ jbPc[j] = "check"
    /\ jbPc' = [jbPc EXCEPT ![j] =
                   IF AlreadyDownloaded(ledger, files, jbId[j], TrackPath(RelinkedTo(jbId[j])))
                   THEN "skipped" ELSE "open"]
    /\ UNCHANGED <<jbId, tkPc, config, ivVars, stVars, dbVars, lgVars, fsVars, dtVars,
                   lyVars, gsVars, cvVars, cfVars>>

\* lines 254-263: the content stream is opened, then open(file_path, 'wb')
JbStream(j) ==
    /\ jbPc[j] = "open"
    /\ jbPc' = [jbPc EXCEPT ![j] = "write"]
    /\ files' = files \cup {TrackPath(RelinkedTo(jbId[j]))}
    /\ UNCHANGED <<jbId, tkPc, ledger, temps, config, ivVars, stVars, dbVars, lgVars, dtVars,
                   lyVars, gsVars, cvVars, cfVars>>

\* lines 266-304: the read loop writes the file; lyrics, transcode (which
\* leaves an output at the target or not) and tagging follow
JbWrite(j, produced) ==
    /\ jbPc[j] = "write"
    /\ jbPc' = [jbPc EXCEPT ![j] = "ledger"]
    /\ files' = IF produced THEN files \cup {TrackPath(RelinkedTo(jbId[j]))}
                ELSE files \ {TrackPath(RelinkedTo(jbId[j]))}
    /\ UNCHANGED <<jbId, tkPc, ledger, temps, config, ivVars, stVars, dbVars, lgVars, dtVars,
                   lyVars, gsVars, cvVars, cfVars>>

\* line 306: the ledger record (AttributeError without Downloader.account,
\* caught at line 308)
JbLedger(j) ==
    /\ jbPc[j] = "ledger"
    /\ jbPc' = [jbPc EXCEPT ![j] = "done"]
    /\ ledger' = IF DownloaderHasAccount
                 THEN CreateDownloadedSong(ledger, RelinkedTo(jbId[j]), CurrentAccountId,
                                           TrackPath(RelinkedTo(jbId[j])))
                 ELSE ledger
    /\ UNCHANGED <<jbId, tkPc, files, temps, config, ivVars, stVars, dbVars, lgVars, dtVars,
                   lyVars, gsVars, cvVars, cfVars>>

----------------------------------------------------------------------------
(* Config.set, Config.get, Config.remove called on the sections            *)
(* "downloader" (the variable config) and "logging" (cfOther), with the    *)
(* option names of OptionNames.  cfLast.before holds the store as the call *)
(* found it, cfLast.saved whether the call rewrote the settings file.      *)

\* lines 185-194: add_section if needed, set(section, key, str(value)), save
CfSet(section, key, value) ==
    /\ cfSections' = cfSections \cup {section}
    /\ IF section = "downloader"
       THEN config' = ConfigSet(config, key, value.v) /\ UNCHANGED cfOther
       ELSE cfOther' = ConfigSet(cfOther, key, value.v) /\ UNCHANGED config
    /\ cfLast' = [op |-> "set", section |-> section, key |-> key, value |-> value,
                  default |-> NoOption, result |-> NoOption, saved |-> TRUE,
                  follows |-> NoOption,
                  before |-> [downloader |-> config, logging |-> cfOther,
                              sections |-> cfSections]]
    /\ UNCHANGED <<ivVars, stVars, dbVars, lgVars, fsVars, dtVars, lyVars, gsVars, cvVars,
                   tkVars>>

\* lines 160-169; follows: the value the call just before this one set for
\* the same section and key, if that call was a Config.set
CfGet(section, key, default) ==
    /\ cfLast' = [op |-> "get", section |-> section, key |-> key, value |-> NoOption,
                  default |-> default,
                  result |-> ConfigGet(IF section = "downloader" THEN config ELSE cfOther,
                                       key, default),
                  saved |-> FALSE,
                  follows |-> IF cfLast.op = "set" /\ cfLast.section = section
                                    /\ cfLast.key = key
                              THEN cfLast.value ELSE NoOption,
                  before |-> [downloader |-> config, logging |-> cfOther,
                              sections |-> cfSections]]
    /\ UNCHANGED <<config, cfSections, cfOther, ivVars, stVars, dbVars, lgVars, fsVars,
                   dtVars, lyVars, gsVars, cvVars, tkVars>>

\* lines 210-217: remove_option and save when the option exists, else nothing
CfRemove(section, key) ==
    LET store == IF section = "downloader" THEN config ELSE cfOther
        exists == store[key] # NoOption
    IN /\ IF exists /\ section = "downloader"
          THEN config' = ConfigRemove(config, key) /\ UNCHANGED cfOther
          ELSE IF exists
          THEN cfOther' = ConfigRemove(cfOther, key) /\ UNCHANGED config
          ELSE UNCHANGED <<config, cfOther>>
       /\ cfLast' = [op |-> "remove", section |-> section, key |-> key,
                     value |-> NoOption, default |-> NoOption, result |-> NoOption,
                     saved |-> exists, follows |-> NoOption,
                     before |-> [downloader |-> config, logging |-> cfOther,
                                 sections |-> cfSections]]
       /\ UNCHANGED <<cfSections, ivVars, stVars, dbVars, lgVars, fsVars, dtVars, lyVars,
                      gsVars, cvVars, tkVars>>

----------------------------------------------------------------------------
(* Specifications                                                          *)

ConfigInit == config = [k \in OptionNames |-> NoOption]

\* every subsystem at rest, the server not tied to a library
AllIdle ==
    /\ ConfigInit /\ IvIdle /\ StIdle /\ DbInit /\ LgIdle /\ FsInit /\ DtIdle /\ LyIdle
    /\ GsIdle /\ CvIdle /\ TkIdle
    /\ cfSections = {} /\ cfOther = [k \in OptionNames |-> NoOption]
    /\ cfLast = [op |-> "none", section |-> "", key |-> "", value |-> NoOption,
                 default |-> NoOption, result |-> NoOption, saved |-> FALSE,
                 follows |-> NoOption,
                 before |-> [downloader |-> [k \in OptionNames |-> NoOption],
                             logging |-> [k \in OptionNames |-> NoOption],
                             sections |-> {}]]

Init == AllIdle /\ StNoLibrary

NextInvoke ==
    \/ \E u \in Urls : IvCall(u)
    \/ \E s \in Shapes : IvRequest(s)
    \/ \E n \in 1..MaxRetry : IvConfigure(n)

SpecInvoke == Init /\ [][NextInvoke]_vars

NextSaved ==
    \/ StCall
    \/ \E n \in PageSizes : StFetchPage(n)
    \/ \E f \in PageFailures : StFetchFails(f)

SpecSaved == Init /\ [][NextSaved]_vars

NextLogin ==
    \/ \E u \in Users \cup {NoUser} : LgCall(u)
    \/ \E ok \in BOOLEAN, w \in BOOLEAN, c \in Creds : LgStoredAttempt(ok, w, c)
    \/ \E o \in Outcomes, w \in BOOLEAN, u \in Users, c \in Creds : LgAttempt(o, w, u, c)
    \/ \E n \in 0..MaxLoginRetry : LgConfigure(n)

SpecLogin == Init /\ [][NextLogin]_vars

NextLyrics ==
    \/ \E n \in 1..MaxLines : \E times \in [1..n -> StartTimes] : LyCall(times)
    \/ LyWriteLine
    \/ LyReturn

SpecLyrics == Init /\ [][NextLyrics]_vars

\* the server holds a library of stLibrary items through the whole run
InitLibrary == AllIdle /\ stLibrary \in 0..MaxLibrary

NextLibrary ==
    \/ StCall
    \/ StFetchLibraryPage

SpecLibrary == InitLibrary /\ [][NextLibrary]_vars

NextSongInfo ==
    \/ \E r \in TracksResponses : GsCall(r)
    \/ GsRun

SpecSongInfo == Init /\ [][NextSongInfo]_vars

NextConvert ==
    \/ \E f \in Formats, q \in Qualities, pr \in BOOLEAN : CvCall(f, q, pr)
    \/ CvSelect

SpecConvert == Init /\ [][NextConvert]_vars

NextTokens ==
    \/ \E j \in 1..MaxJobs : TkInvoke(j)
    \/ \E j \in 1..MaxJobs : TkMint(j)
    \/ \E j \in 1..MaxJobs : TkMinted(j)
    \/ \E j \in 1..MaxJobs : TkRequest(j)
    \/ \E j \in 1..MaxJobs : TkReturn(j)

SpecTokens == Init /\ [][NextTokens]_vars

NextJobs ==
    \/ \E j \in 1..MaxJobs, id \in TrackIds : JbCall(j, id)
    \/ \E j \in 1..MaxJobs : JbCheck(j)
    \/ \E j \in 1..MaxJobs : JbStream(j)
    \/ \E j \in 1..MaxJobs, pr \in BOOLEAN : JbWrite(j, pr)
    \/ \E j \in 1..MaxJobs : JbLedger(j)

SpecJobs == Init /\ [][NextJobs]_vars

\* the values a caller sets are ints and the same numbers written as text
NextConfig ==
    \/ \E s \in {"downloader", "logging"}, k \in OptionNames, n \in 1..MaxRetry :
          CfSet(s, k, PyInt(n)) \/ CfSet(s, k, PyStr(n))
    \/ \E s \in {"downloader", "logging"}, k \in OptionNames :
          CfGet(s, k, NoOption) \/ CfGet(s, k, PyInt(CONFIG_DOWNLOADER_RETRY_ATTEMPTS))
    \/ \E s \in {"downloader", "logging"}, k \in OptionNames : CfRemove(s, k)

SpecConfig == Init /\ [][NextConfig]_vars

Next ==
    \/ \E id \in TrackIds : DtCall(id)
    \/ \E e \in ResolveOutcomes, pl \in BOOLEAN : DtResolve(e, pl)
    \/ \E e \in LookupOutcomes : DtCheck(e)
    \/ \E o \in OpenOutcomes : DtOpen(o)
    \/ \E k \in ReadKinds : DtRead(k)
    \/ \E r \in LyricsResponses, s \in LyricsSettings : DtLyrics(r, s)
    \/ \E e \in ConvertOutcomes, pr \in BOOLEAN : DtConvert(e, pr)
    \/ \E e \in TagOutcomes : DtTag(e)
    \/ \E e \in LedgerOutcomes : DtLedger(e)

Spec == Init /\ [][Next]_vars

----------------------------------------------------------------------------
(* Claims about download_track, checked under Spec                         *)

InTrace(stage) == \E i \in 1..Len(dtTrace) : dtTrace[i] = stage

LedgerRowsFor(song_id) == {i \in 1..Len(ledger) : ledger[i].song_id = song_id}

\* C1: a download_track call for an id that an earlier call already downloaded
\* (that call ran through to the ledger record) opens no content stream and
\* writes no raw bytes, and when it ends, the track still playable and nothing
\* having failed in it, the ledger holds exactly one entry for that track.
C1_DedupIdempotence ==
    dtRepeat =>
        /\ dtStream = "none" /\ dtWritten = 0 /\ ~InTrace("open")
        /\ (dtPc = "done" /\ dtFailed = <<>> /\ dtSkip # "unplayable") =>
              Cardinality(LedgerRowsFor(RelinkedTo(dtReq))) = 1

\* C2: the ledger never holds two entries with the same track id and account.
C2_LedgerAtMostOnePerTrack ==
    \A i, j \in 1..Len(ledger) :
        (ledger[i].song_id = ledger[j].song_id /\ ledger[i].account_id = ledger[j].account_id)
            => i = j

\* C2 witness: two calls reached the ledger record for the same canonical id,
\* the later one through the stale id, with the target file absent from disk
C2_Witness ==
    /\ dtPc = "done" /\ dtReq = "A" /\ InTrace("ledger")
    /\ TrackPath("B") \notin files
    /\ \E i, j \in 1..Len(ledgerTries) :
          i < j /\ ledgerTries[i] = "B" /\ ledgerTries[j] = "B"

\* C6: a content stream is only ever requested for the id that metadata
\* resolution returned; when that id differs from the requested one, the
\* stream is not requested for the requested id; and once the stream request
\* has been made (the track was playable and not yet downloaded), it was made
\* for the resolved id.
C6_StreamUsesCanonicalId ==
    /\ dtStream # "none" => dtStream = dtMeta.id
    /\ (dtStream # "none" /\ dtMeta.id # dtReq) => dtStream # dtReq
    /\ dtPc \in {"read", "lyrics", "convert", "tag", "ledger"} => dtStream = dtMeta.id

\* C6 witness: the stale id was requested and the stream was opened for the
\* id it is relinked to
C6_Witness ==
    /\ dtReq = "A" /\ dtMeta.id = "B" /\ dtStream = "B" /\ dtPc = "read"

\* C10: no exception leaves download_track, whatever stage fails, so the
\* caller's batch is never stopped by a track.
C10_NoExceptionEscapes ==
    dtPc # "crashed" /\ dtEscaped = "none"

\* C10 witness: a second call of the batch ended normally after its lyrics
\* request raised something other than ValueError
C10_Witness ==
    /\ dtCalls >= 2 /\ dtPc = "done"
    /\ \E i \in 1..Len(dtFailed) : dtFailed[i] = [stage |-> "lyrics", exc |-> "KeyError"]

\* the raw download loop and the stages after it, as this call ran them
PostTrace ==
    SelectSeq(dtTrace, LAMBDA st : st \in {"read", "lyrics", "convert", "tag", "ledger"})

IsPrefix(s, t) == Len(s) <= Len(t) /\ \A i \in 1..Len(s) : s[i] = t[i]

StageFailed(stage) == \E i \in 1..Len(dtFailed) : dtFailed[i].stage = stage

RawDownloadSucceeded == InTrace("read") /\ ~StageFailed("open") /\ ~StageFailed("read")

AfterReadLoop == dtPc \in {"lyrics", "convert", "tag", "ledger"}

\* C11 as stated: after the raw download loop the stages run in the order
\* transcode, lyrics, tagging, ledger record.
C11_StageOrderAsStated ==
    IsPrefix(PostTrace, <<"read", "convert", "lyrics", "tag", "ledger">>)

\* C11: in every download_track call the stages after the raw download loop
\* run in the order lyrics, transcode, tagging, ledger record (each at most
\* once, none skipped over), and none of them starts before the loop has
\* finished.
C11_StageOrder ==
    /\ IsPrefix(PostTrace, <<"read", "lyrics", "convert", "tag", "ledger">>)
    /\ AfterReadLoop => (InTrace("read") /\ dtB >= EmptyReadsToStop)

\* C11 witness: a call that ran the loop and all four stages
C11_Witness ==
    /\ dtPc = "done" /\ dtWritten >= 1
    /\ PostTrace = <<"read", "lyrics", "convert", "tag", "ledger">>

\* C12: once the transcode stage of a call has ended, the audio of the track
\* is on disk: the file at the target path or the raw file at the .temp path
\* exists.
C12_AudioNeverLost ==
    InTrace("convert") => (dtMeta.path \in files \/ dtMeta.path \in temps)

\* C13: a download_track call in which the raw download, the transcode and
\* the tagging all succeeded ends with exactly one new ledger entry, holding
\* the canonical track id, the current account and the file path.
C13_LedgerRecordOnSuccess ==
    (/\ dtPc = "done" /\ RawDownloadSucceeded
     /\ InTrace("convert") /\ ~StageFailed("convert")
     /\ InTrace("tag") /\ ~StageFailed("tag")) =>
        /\ Len(ledger) = Len(dtStart.ledger) + 1
        /\ ledger[Len(ledger)] = [song_id |-> dtMeta.id, account_id |-> CurrentAccountId,
                                  path |-> dtMeta.path]

\* C14: a download_track call whose raw download succeeded and whose tagging
\* stage raised ends with the ledger entry of the track recorded.
C14_TaggingFailureIsolated ==
    (dtPc = "done" /\ RawDownloadSucceeded /\ StageFailed("tag")) =>
        /\ Len(ledger) = Len(dtStart.ledger) + 1
        /\ LedgerHas(ledger, dtMeta.id)

\* the lyrics responses with another syncType or without lyrics data
LyricsUnavailableResponses ==
    {"other_sync", "empty", "error", "no_lyrics", "no_lines", "no_syncType"}

\* C15: when the lyrics endpoint answers with a syncType other than UNSYNCED
\* or LINE_SYNCED, or without lyrics data, the lyrics stage fails with
\* ValueError (LyricsUnavailable), the call does not end before the transcode
\* stage has run, and unless the transcode itself aborts the call, the tagging
\* and ledger stages run too.
C15_LyricsFailureIsolated ==
    (InTrace("lyrics") /\ dtLyricsResp \in LyricsUnavailableResponses) =>
        /\ \E i \in 1..Len(dtFailed) : dtFailed[i] = [stage |-> "lyrics", exc |-> "ValueError"]
        /\ dtPc = "done" => InTrace("convert")
        /\ (dtPc = "done" /\ \A i \in 1..Len(dtFailed) :
                                dtFailed[i].stage = "convert" =>
                                    ConvertHandlerCatches(dtFailed[i].exc)) =>
              (InTrace("tag") /\ InTrace("ledger"))

\* C18: the raw download loop goes on while fewer than 5 consecutive empty
\* reads have been observed, and when it has stopped, the last 5 reads were
\* all empty.
C18_StopsAfterConsecutiveEmptyReads ==
    /\ dtPc = "read" => dtRun < 5
    /\ (InTrace("read") /\ ~StageFailed("read")) => dtRun = 5

\* C19: a call whose metadata resolution failed has ended without raising,
\* opened no content stream, written nothing, requested no lyrics, run no
\* later stage, and left the files on disk and the ledger as it found them.
C19_MetadataFailureChangesNothing ==
    StageFailed("resolve") =>
        /\ dtPc = "done" /\ dtEscaped = "none"
        /\ dtStream = "none" /\ dtWritten = 0 /\ dtLyricsResp = "none"
        /\ dtTrace = <<"resolve">>
        /\ ledger = dtStart.ledger /\ files = dtStart.files /\ temps = dtStart.temps

\* C19 witness: metadata resolution failed in a call that found files on disk
C19_Witness ==
    /\ dtFailed = <<[stage |-> "resolve", exc |-> "TypeError"]>>
    /\ dtStart.files # {} /\ dtCalls >= 2

\* the conditions of lines 246 and 250, as the call found them
SkipCondition ==
    \/ ~dtMeta.playable
    \/ LedgerHas(dtStart.ledger, dtReq)
    \/ dtMeta.path \in dtStart.files

\* C20: a call that resolved a track that is not playable, or that has a
\* ledger entry for the requested id, or whose target file exists, opens no
\* content stream, writes nothing, requests no lyrics, runs no later stage and
\* leaves the files on disk and the ledger as it found them; a call that
\* skipped has ended without raising.
C20_SkipIsNoOp ==
    /\ (InTrace("check") /\ SkipCondition) =>
          /\ dtStream = "none" /\ dtWritten = 0 /\ dtLyricsResp = "none"
          /\ dtTrace = <<"resolve", "check">>
          /\ ledger = dtStart.ledger /\ files = dtStart.files /\ temps = dtStart.temps
    /\ dtSkip # "none" => (dtPc = "done" /\ dtEscaped = "none" /\ SkipCondition)

\* C20 witness: a playable track whose target file was already on disk was
\* skipped
C20_Witness ==
    /\ dtSkip = "dedup" /\ dtMeta.playable /\ dtMeta.path \in dtStart.files
    /\ dtPc = "done"

\* C32: a call skipped as already downloaded follows a call whose read loop
\* for that file ran to its end.
C32_DedupImpliesCompletedDownload ==
    dtSkip = "dedup" => dtMeta.path \in rawDone

\* C34: when the read loop has finished, the target file holds the chunks the
\* stream returned, each once, in the order they were read.
C34_RawFileContent ==
    (InTrace("read") /\ ~StageFailed("read")) =>
        dtContent = [i \in 1..dtWritten |-> i]

\* C34 witness: the stream returned two chunks around an empty read, and the
\* loop finished
C34_Witness ==
    /\ InTrace("read") /\ ~StageFailed("read")
    /\ dtWritten = 2 /\ dtContent = <<1, 2>> /\ dtB = 5

\* the spellings of "false" among the stored settings
FalseTexts == {<<"f", "a", "l", "s", "e">>, <<"F", "a", "l", "s", "e">>}

----------------------------------------------------------------------------
(* Claims about get_song_info, checked under SpecSongInfo                  *)

GsFinished == gsPc \in {"returned", "raised"}

\* C21: for every answer of the tracks endpoint that invoke_url hands to
\* get_song_info, get_song_info returns or raises ValueError; an answer
\* without a tracks key and an answer whose fields cannot be extracted (empty
\* tracks list, null track, missing field, empty images list) both end in
\* ValueError.
C21_SingleErrorKind ==
    (GsFinished /\ InvokeUrlRaises(TracksShape(gsResp.kind), config) = "none") =>
        /\ gsPc = "raised" => gsOut.exc = "ValueError"
        /\ (\/ gsResp.kind \in {"no_tracks", "empty_tracks", "null_track", "missing_field"}
            \/ (gsResp.kind = "full" /\ gsResp.widths = <<>>)) =>
              (gsPc = "raised" /\ gsOut.exc = "ValueError")

\* C29: the image_url get_song_info returns for a non-empty list of images
\* is the url of an image at least as wide as every image of the list, and
\* of the earliest one among the widest.
C29_WidestEarliestImage ==
    (gsPc = "returned" /\ gsResp.widths # <<>>) =>
        \E i \in DOMAIN gsResp.widths :
            /\ gsOut.image_url = AlbumImages(gsResp)[i].url
            /\ \A j \in DOMAIN gsResp.widths : gsResp.widths[j] <= gsResp.widths[i]
            /\ \A j \in 1..(i - 1) : gsResp.widths[j] < gsResp.widths[i]

\* C29 witness: the widest image is neither first nor last and has an equal
\* after it
C29_Witness ==
    /\ gsPc = "returned" /\ gsResp.widths = <<300, 640, 640>>
    /\ gsOut.image_url = 2

----------------------------------------------------------------------------
(* Claims about the codec selection, checked under SpecConvert             *)

\* C28: the codec is the table entry of the lower-cased format, stream copy
\* for a format the table does not have; with one of the four qualities the
\* selection succeeds, a bitrate is passed exactly when the codec is not stream
\* copy, and it is 320k / 160k for auto with / without premium, 96k for
\* normal, 160k for high, 320k for very_high.
C28_CodecAndBitrate ==
    cvPc \in {"selected", "raised"} =>
        /\ cvOut.codec = CodecMapGet(PyLower(cvIn.format), "copy")
        /\ cvIn.format = <<"M", "P", "3">> => cvOut.codec = "libmp3lame"
        /\ cvIn.format = <<"O", "p", "u", "s">> => cvOut.codec = "libopus"
        /\ cvIn.format = <<"f", "l", "a", "c">> => cvOut.codec = "copy"
        /\ cvIn.quality \in {"auto", "normal", "high", "very_high"} =>
              /\ cvPc = "selected"
              /\ cvOut.bitrate_passed <=> cvOut.codec # "copy"
              /\ cvOut.bitrate_passed =>
                    cvOut.bitrate =
                        CASE cvIn.quality = "auto" -> IF cvIn.premium THEN "320k" ELSE "160k"
                          [] cvIn.quality = "normal" -> "96k"
                          [] cvIn.quality = "high" -> "160k"
                          [] cvIn.quality = "very_high" -> "320k"

\* C28 witness: MP3 in capitals, quality auto, a premium account
C28_Witness ==
    /\ cvPc = "selected" /\ cvIn.format = <<"M", "P", "3">> /\ cvIn.quality = "auto"
    /\ cvIn.premium /\ cvOut.bitrate = "320k" /\ cvOut.codec = "libmp3lame"

----------------------------------------------------------------------------
(* Claims about concurrent jobs, checked under SpecTokens                  *)

\* C30: at no time are two jobs inside the token provider's get_token.
C30_TokenMintingExclusive ==
    Cardinality({j \in 1..MaxJobs : tkPc[j] = "minting"}) <= 1

----------------------------------------------------------------------------
(* Claims about the LINE_SYNCED timestamps, checked under SpecLyrics       *)

\* the prefix [mm:ss.cc] of a start time: minutes, seconds, centiseconds
\* (truncated), each zero-padded to 2 digits
CentisecondPrefix(ms) ==
    <<"[">> \o Zfill(PyStrOf(ms \div 60000), 2) \o <<":">>
            \o Zfill(PyStrOf((ms % 60000) \div 1000), 2) \o <<".">>
            \o Zfill(PyStrOf((ms % 1000) \div 10), 2) \o <<"]">>

\* C16: every line written for a LINE_SYNCED response starts with the prefix
\* [mm:ss.cc] of its startTimeMs, cc being the centiseconds, truncated.
C16_TimestampFormat ==
    \A i \in 1..Len(lyFile) : lyFile[i].prefix = CentisecondPrefix(lyFile[i].ms)

----------------------------------------------------------------------------
(* Claims about get_user_saved_tracks, checked under SpecSaved             *)

RECURSIVE ConcatPages(_)
\* the items of pages 1..k of the call, in order
ConcatPages(k) ==
    IF k = 0 THEN <<>> ELSE ConcatPages(k - 1) \o PageItems(k, stPages[k].size)

\* C3: get_user_saved_tracks keeps requesting while every page so far was
\* full, stops exactly after the first page with fewer than 50 items (an empty
\* page included), and returns the items of every fetched page, in order.
C3_PaginationStopsAtShortPage ==
    /\ stPc = "loop" => \A k \in 1..Len(stPages) : stPages[k].size >= 50
    /\ stPc = "returned" =>
          /\ Len(stPages) >= 1
          /\ stPages[Len(stPages)].size < 50
          /\ \A k \in 1..(Len(stPages) - 1) : stPages[k].size >= 50
          /\ stSongs = ConcatPages(Len(stPages))

\* C3 witness: a call that fetched full pages and stopped on an empty page
C3_Witness ==
    /\ stPc = "returned" /\ Len(stPages) >= 3
    /\ stPages[Len(stPages)].size = 0
    /\ Len(stSongs) >= 2 * SavedTracksLimit

\* C35: a call of get_user_saved_tracks in which a page request brought an
\* error payload, a body that is not JSON or no response at all has raised;
\* a call that returned had no such page and returns the items of all its
\* pages.
C35_NoSilentTruncation ==
    /\ (\E k \in 1..Len(stPages) : stPages[k].size < 0) =>
          (stPc = "raised" /\ stExc # "none")
    /\ stPc = "returned" =>
          /\ \A k \in 1..Len(stPages) : stPages[k].size >= 0
          /\ stSongs = ConcatPages(Len(stPages))

\* C35 witness: two full pages were fetched, the third request brought an
\* error payload, and the call raised
C35_Witness ==
    /\ stPc = "raised" /\ stExc = "KeyError" /\ Len(stPages) = 3
    /\ stPages[3].size < 0 /\ Len(stSongs) = 2 * SavedTracksLimit

\* C26 (checked under SpecLibrary): against a server that holds N items,
\* the k-th request uses offset 50 * (k - 1), the call is still requesting
\* only while every page was full, and it returns after exactly
\* floor(N / 50) + 1 requests with the N items, each once, in server order.
C26_OffsetsAndCompleteness ==
    /\ \A k \in 1..Len(stPages) : stPages[k].offset = 50 * (k - 1)
    /\ stPc = "loop" => Len(stPages) <= stLibrary \div 50
    /\ stPc = "returned" =>
          /\ Len(stPages) = (stLibrary \div 50) + 1
          /\ stSongs = [g \in 1..stLibrary |-> g]

\* C26 witness: a library of 100 items took three requests, the last one
\* returning an empty page
C26_Witness ==
    /\ stPc = "returned" /\ stLibrary = 100 /\ Len(stPages) = 3
    /\ stPages[3] = [offset |-> 100, size |-> 0]

----------------------------------------------------------------------------
(* Claims about login, checked under SpecLogin                             *)

LgFinished == lgPc \in {"returned", "raised"}

\* C7: the stored-credential path runs at most once per login call; when its
\* session construction fails, that account row is gone from the store, the
\* call has left the stored path for the interactive loop, it makes at least
\* one interactive attempt before it ends, and it can return only through the
\* interactive flow.
C7_StoredFailureFallsBack ==
    /\ Len(lgStored) <= 1
    /\ (Len(lgStored) = 1 /\ ~lgStored[1].ok) =>
          /\ \A i \in 1..Len(accounts) : accounts[i].id # lgStored[1].id
          /\ lgPc # "stored"
          /\ (LgFinished /\ lgN >= 1) => Len(lgOutcomes) >= 1
          /\ lgPc = "returned" => Len(lgCreated) = 1

\* C7 witness: a call whose stored credential failed and that went on to log
\* in interactively
C7_Witness ==
    /\ Len(lgStored) = 1 /\ ~lgStored[1].ok
    /\ lgPc = "returned" /\ Len(lgOutcomes) >= 1

\* C8: login makes at most login_retry_attempts interactive attempts, and it
\* returns normally only with a session that was constructed during the call
\* (a call in which no construction succeeded ends by raising).
C8_LoginBoundedAndTerminal ==
    /\ lgPc \in {"oauth", "returned", "raised"} => Len(lgOutcomes) <= LoginRetryAttempts(config)
    /\ lgPc = "returned" => (lgBuilt /\ session # NoSession)

\* C9: an interactive attempt whose session construction succeeds is the last
\* attempt of the call, the call has returned without raising, and it created
\* exactly one account row, holding the credential issued with that session.
C9_InteractiveSuccessPersistsOnce ==
    \A k \in 1..Len(lgOutcomes) :
        lgOutcomes[k] = "ok" =>
            /\ k = Len(lgOutcomes)
            /\ lgPc = "returned" /\ lgExc = "none"
            /\ Len(lgCreated) = 1
            /\ \E i \in 1..Len(accounts) :
                  /\ accounts[i].id = lgCreated[1]
                  /\ accounts[i].user_name = session.user
                  /\ accounts[i].credentials = session.cred
            /\ Cardinality({i \in 1..Len(accounts) : accounts[i].id = lgCreated[1]}) = 1

\* C9 witness: a call that succeeded on its second or later interactive attempt
C9_Witness ==
    /\ Len(lgOutcomes) >= 2 /\ lgOutcomes[Len(lgOutcomes)] = "ok"
    /\ lgOutcomes[1] = "connerr"
    /\ lgPc = "returned"

\* C22: a login call whose stored-credential attempt succeeded has returned
\* with the session of that credential, made no interactive attempt, slept
\* never, and left the accounts table as it found it.
C22_StoredSuccessPath ==
    (Len(lgStored) = 1 /\ lgStored[1].ok) =>
        /\ lgPc = "returned" /\ lgExc = "none"
        /\ lgOutcomes = <<>> /\ lgSleeps = <<>> /\ lgCreated = <<>>
        /\ accounts = lgStart
        /\ session.user = lgUser
        /\ \E i \in 1..Len(lgStart) :
              lgStart[i].id = lgStored[1].id /\ session.cred = lgStart[i].credentials

\* C22 witness: a later call of the run logged in from the credential an
\* earlier call had stored
C22_Witness ==
    /\ Len(lgStored) = 1 /\ lgStored[1].ok /\ lgPc = "returned"
    /\ lgCalls >= 2 /\ Len(accounts) >= 1

\* C25: every interactive attempt that ended in a connection failure was
\* followed by exactly one 3-second sleep.
C25_OneSleepPerConnectionFailure ==
    \A k \in 1..Len(lgOutcomes) :
        lgOutcomes[k] = "connerr" =>
            Cardinality({i \in 1..Len(lgSleeps) : lgSleeps[i] = k}) = 1

\* C33: the accounts table never holds two rows with the same user_name.
C33_OneCredentialPerUser ==
    \A i, j \in 1..Len(accounts) :
        accounts[i].user_name = accounts[j].user_name => i = j

\* C31 (checked under SpecJobs): of the jobs started for one track id at
\* most one has opened the content stream and the target file, and the ledger
\* holds at most one row for the track.
C31_ConcurrentDedup ==
    \A id \in TrackIds :
        /\ Cardinality({j \in 1..MaxJobs :
                           jbId[j] = id /\ jbPc[j] \in {"write", "ledger", "done"}}) <= 1
        /\ Cardinality(LedgerRowsFor(RelinkedTo(id))) <= 1

----------------------------------------------------------------------------
(* Claims about Config, checked under SpecConfig                           *)

\* the options of a section in a store [downloader, logging]
CfSection(stores, section) ==
    IF section = "downloader" THEN stores.downloader ELSE stores.logging

CfNow == [downloader |-> config, logging |-> cfOther]

\* every option but (section, key) holds what it held before the last call
CfOthersKept(section, key) ==
    \A s \in {"downloader", "logging"}, k \in OptionNames :
        (s # section \/ k # key) => CfSection(CfNow, s)[k] = CfSection(cfLast.before, s)[k]

\* C36: after Config.set(section, key, v), Config.get(section, key, default)
\* returns v for every default, whether or not the section existed, a Config.get
\* that follows a Config.set of the same key returned the value that was set,
\* and the set changed no other option.
C36_SetGetRoundTrip ==
    /\ cfLast.op = "set" =>
          /\ \A d \in {NoOption, PyInt(CONFIG_DOWNLOADER_RETRY_ATTEMPTS)} :
                ConfigGet(CfSection(CfNow, cfLast.section), cfLast.key, d) = cfLast.value
          /\ CfOthersKept(cfLast.section, cfLast.key)
    /\ (cfLast.op = "get" /\ cfLast.follows # NoOption) => cfLast.result = cfLast.follows

----------------------------------------------------------------------------
(* Claims about invoke_url, checked under SpecInvoke                       *)

IvFinished == ivPc \in {"returned", "raised"}

\* the retry bound the user configured: the number stored under
\* retry_attempts, or the default when the option is absent
ConfiguredRetryAttempts == RetryAttempts(config).v

IvLastParsed == ParsedJson(ivHist[Len(ivHist)], Len(ivHist))

\* C4: with retry_attempts = n >= 1 and an endpoint that answers every request
\* with an error payload, invoke_url issues exactly n requests (never more
\* while it runs) and then returns the last error payload.
C4_RetryBoundExact ==
    (ivPc # "idle" /\ \A i \in 1..Len(ivHist) : ivHist[i] = "error") =>
        /\ Len(ivHist) <= ConfiguredRetryAttempts
        /\ IvFinished =>
              /\ ivPc = "returned"
              /\ Len(ivHist) = ConfiguredRetryAttempts
              /\ ivResult = [text |-> Len(ivHist), shape |-> "error", seq |-> Len(ivHist)]

\* C5: a finished invoke_url whose last parsed payload is empty or carries an
\* error key has logged the failure and returned that payload; it has not
\* raised.
C5_ErrorPayloadReturned ==
    (IvFinished /\ ivHist[Len(ivHist)] # "connerr" /\ IsErrorPayload(IvLastParsed)) =>
        /\ ivPc = "returned"
        /\ ivLogged >= 1
        /\ ivResult.shape = IvLastParsed.shape /\ ivResult.seq = IvLastParsed.seq

\* C17: a connection error of the HTTP transport never leaves invoke_url: a
\* call in which a request raised one has not raised, and when it is finished
\* it has returned an error payload.
C17_TransportErrorNotSurfaced ==
    (\E i \in 1..Len(ivHist) : ivHist[i] = "connerr") =>
        /\ ivPc # "raised" /\ ivExc = "none"
        /\ IvFinished => IsErrorPayload(ivResult)

\* the requests before the last one all brought an error object or a body
\* that is not JSON
IvCleanErrorsBeforeLast ==
    \A i \in 1..(Len(ivHist) - 1) : ivHist[i] \in {"error", "notjson"}

\* C23: a finished invoke_url call whose requests brought only error objects
\* and bodies that are not JSON, the last one not JSON, has not raised: it
\* made as many requests as the retry bound allows and returned the synthetic
\* error payload (which belongs to no response).
C23_ParseFailureIsErrorPayload ==
    (IvFinished /\ IvCleanErrorsBeforeLast /\ ivHist[Len(ivHist)] = "notjson") =>
        /\ ivPc = "returned"
        /\ Len(ivHist) = ConfiguredRetryAttempts
        /\ ivResult.shape = "error" /\ ivResult.seq = 0

\* C24: while the requests of a call bring error payloads and the retry bound
\* is not reached, the call sleeps once and goes on to the next request; when
\* the k-th request is the first to bring a good payload, the call has returned
\* that payload after k requests, k - 1 sleeps and k minted tokens.
C24_StopsAtFirstGoodPayload ==
    (Len(ivHist) >= 1 /\ IvCleanErrorsBeforeLast /\ Len(ivHist) <= ConfiguredRetryAttempts) =>
        /\ ivHist[Len(ivHist)] = "good" =>
              /\ ivPc = "returned"
              /\ ivSleeps = Len(ivHist) - 1 /\ ivTokens = Len(ivHist)
              /\ ivResult = [text |-> Len(ivHist), shape |-> "good", seq |-> Len(ivHist)]
        /\ (ivHist[Len(ivHist)] \in {"error", "notjson"}
                /\ Len(ivHist) < ConfiguredRetryAttempts) =>
              (ivPc = "request" /\ ivSleeps = Len(ivHist) /\ ivTokens = Len(ivHist))

====
